---- MODULE Spec2Model ----
(***************************************************************************)
(* A model of notion_html_to_anki_csv.py: the table parser and row emitter *)
(* (parse_table, convert_file), the tag extractor (tags_from_cell), the    *)
(* color-class normalizer (merge_style, convert_color_classes_to_inline)   *)
(* and the rich-mode inline sanitizer (sanitize_inline_html).              *)
(*                                                                         *)
(* Text is modelled as a sequence of atoms.  An atom is a character or a   *)
(* fixed word that none of the program's patterns can split.               *)
(***************************************************************************)
EXTENDS Integers, Sequences, FiniteSets, TLC

VARIABLES
    \* convert_file / parse_table
    doc,        \* the parsed input document
    pc,         \* position of the run inside convert_file
    col_map,    \* parse_table's col_map: logical field -> header index (0-based)
    ri,         \* number of body rows the for loop has consumed
    rows_out,   \* convert_file's rows_out
    file_open,  \* whether open(output_path, "w") has been executed
    file_rows,  \* what has been written to the output file
    err,        \* the exception that ended the run, "" when none
    \* tags_from_cell
    t_cell,     \* the text of the tag cell
    t_pc,       \* position inside tags_from_cell
    t_tokens,   \* tokens
    t_k,        \* number of tokens the for loop has consumed
    t_clean,    \* clean
    t_seen,     \* seen
    t_result,   \* the returned string
    \* convert_color_classes_to_inline
    k_el0,      \* the element as passed in: class and style attributes
    k_pc,       \* position inside convert_color_classes_to_inline
    k_hasClass, \* "class" in el.attrs
    k_classes,  \* the element's class list (classes aliases it)
    k_hasStyle, \* "style" in el.attrs
    k_style,    \* el["style"]
    k_snapshot, \* list(classes), the list the for loop walks
    k_i,        \* number of entries of the snapshot the loop has consumed
    \* sanitize_inline_html, strip_all=False
    s_cell0,    \* the cell as passed in: its nodes and their child lists
    s_pc,       \* position inside sanitize_inline_html
    s_node,     \* the nodes below the cell: tag, style attribute, text
    s_kids,     \* the child list of the cell (0) and of every node
    s_work,     \* list(cell.find_all(True)), the list the unwrap loop walks
    s_wi,       \* number of entries of s_work the loop has consumed
    s_html,     \* html_str
    s_tmp,      \* tmp
    s_out       \* the returned string

cvars == <<doc, pc, col_map, ri, rows_out, file_open, file_rows, err>>

tvars == <<t_cell, t_pc, t_tokens, t_k, t_clean, t_seen, t_result>>

kvars == <<k_el0, k_pc, k_hasClass, k_classes, k_hasStyle, k_style, k_snapshot, k_i>>

svars == <<s_cell0, s_pc, s_node, s_kids, s_work, s_wi, s_html, s_tmp, s_out>>

vars == <<cvars, tvars, kvars, svars>>

\* What each function leaves alone.
notConvert == <<tvars, kvars, svars>>
notTags == <<cvars, kvars, svars>>
notColor == <<cvars, tvars, svars>>
notSanitize == <<cvars, tvars, kvars>>

----------------------------------------------------------------------------
(* Bounds of the model.                                                    *)

MaxHeaders == 3
MaxRows == 3
MaxTagLen == 5
MaxClasses == 3
MaxNodes == 3

----------------------------------------------------------------------------
(* Generic helpers on sequences.                                           *)

Range(s) == {s[i] : i \in 1..Len(s)}

SeqsUpTo(S, n) == UNION {[1..k -> S] : k \in 0..n}

----------------------------------------------------------------------------
(* parse_table                                                             *)

\* str.lower() on an atom of header text.
Lower(a) ==
    CASE a = "Front" -> "front"
      [] a = "BACK" -> "back"
      [] a = "Tags" -> "tags"
      [] OTHER -> a

\* str.isspace() on an atom.
IsSpace(a) == a \in {" ", "\t", "\n"}

RECURSIVE LStrip(_)
LStrip(s) ==
    IF s # <<>> /\ IsSpace(Head(s)) THEN LStrip(Tail(s)) ELSE s

RECURSIVE RStrip(_)
RStrip(s) ==
    IF s # <<>> /\ IsSpace(s[Len(s)]) THEN RStrip(SubSeq(s, 1, Len(s) - 1)) ELSE s

\* str.strip()
Strip(s) == RStrip(LStrip(s))

\* str.rstrip(";")
RECURSIVE RStripSemis(_)
RStripSemis(s) ==
    IF s # <<>> /\ s[Len(s)] = ";" THEN RStripSemis(SubSeq(s, 1, Len(s) - 1)) ELSE s

\* th.get_text(strip=True).lower() for a header cell holding one text node.
HeaderName(th) == [i \in 1..Len(Strip(th)) |-> Lower(Strip(th)[i])]

\* "word" in name
Contains(name, word) == \E i \in 1..Len(name) : name[i] = word

\* col_map[key] = idx
DictPut(d, key, val) ==
    [k \in (DOMAIN d) \cup {key} |-> IF k = key THEN val ELSE d[k]]

EmptyDict == [k \in {} |-> 0]

\* A plausible slip: independent ifs in place of the elif chain.
AssignHeaderIfs(cm, idx, name) ==
    LET c1 == IF Contains(name, "notion-id") THEN DictPut(cm, "id", idx) ELSE cm
        c2 == IF name = <<"front">> THEN DictPut(c1, "front", idx) ELSE c1
        c3 == IF name = <<"back">> THEN DictPut(c2, "back", idx) ELSE c2
    IN  IF Contains(name, "tags") THEN DictPut(c3, "tags", idx) ELSE c3

\* One iteration of the loop over enumerate(headers).
AssignHeader(cm, idx, name) ==
    IF Contains(name, "notion-id") THEN DictPut(cm, "id", idx)
    ELSE IF name = <<"front">> THEN DictPut(cm, "front", idx)
    ELSE IF name = <<"back">> THEN DictPut(cm, "back", idx)
    ELSE IF Contains(name, "tags") THEN DictPut(cm, "tags", idx)
    ELSE cm

RECURSIVE BuildColMap(_, _, _)
BuildColMap(headers, idx, cm) ==
    IF idx >= Len(headers) THEN cm
    ELSE BuildColMap(headers, idx + 1, AssignHeader(cm, idx, headers[idx + 1]))

\* headers = [th.get_text(strip=True).lower() for th in thead.find_all("th")]
Headers(d) == [i \in 1..Len(d.ths) |-> HeaderName(d.ths[i])]

----------------------------------------------------------------------------
(* convert_file                                                            *)

\* The header texts a th may hold (raw, before strip and lower).
ThTexts ==
    { <<"notion-id">>, <<"front">>, <<" ", "Front">>, <<"back">>, <<"tags">>,
      <<"notion-id", "tags">>, <<"front", "x">> }

\* The number of td elements a body row may hold, for a given header row.
TdCounts(ths) == {0, 1, Len(ths)}

\* A document.  ths: the th texts of the thead; trs: the number of td elements
\* of each tr of the tbody, in document order.
Doc(table, thead, tbody, h, t) ==
    [hasTable |-> table, hasThead |-> thead, hasTbody |-> tbody, ths |-> h, trs |-> t]

\* fieldnames=["Notion-ID", "Front", "Back", "Tags"]
FieldNames == <<"Notion-ID", "Front", "Back", "Tags">>

\* The value a conversion yields from the td at index k (0-based) of body row r.
\* how: "get_text", "strip_all" (sanitize_inline_html, strip_all=True),
\* "rich" (sanitize_inline_html, strip_all=False) or "tags" (tags_from_cell).
CellValue(r, k, how) == <<r, k, how>>

EmptyString == <<>>

\* tds = tr.find_all("td"); if not tds: continue
SkipRowShort(r) == doc.trs[r] <= 1

SkipRow(r) == doc.trs[r] = 0

\* The exception lines 173-176 raise on body row r, "" when none.
RowError(r) ==
    LET n == doc.trs[r]
        Lookup(key) ==
            IF key \notin DOMAIN col_map THEN "KeyError"
            ELSE IF col_map[key] >= n THEN "IndexError"
            ELSE ""
    IN  IF Lookup("id") # "" THEN Lookup("id")
        ELSE IF Lookup("front") # "" THEN Lookup("front")
        ELSE IF Lookup("back") # "" THEN Lookup("back")
        ELSE IF "tags" \in DOMAIN col_map THEN Lookup("tags")
        ELSE ""

\* The dict appended to rows_out for body row r (src records the row it is from).
RowRecord(r) ==
    [ src |-> r,
      nid |-> CellValue(r, col_map["id"], "get_text"),
      front |-> CellValue(r, col_map["front"], "strip_all"),
      back |-> CellValue(r, col_map["back"], "rich"),
      tags |-> IF "tags" \in DOMAIN col_map
               THEN CellValue(r, col_map["tags"], "tags")
               ELSE EmptyString ]

\* writer.writerows: the four fields of a row, in fieldnames order.
CsvRow(rec) == <<rec.nid, rec.front, rec.back, rec.tags>>

\* A plausible slip: the with-block placed before the loop over the rows.
LoopDoneEarly == TRUE

\* The for loop over the tr elements is exhausted.
LoopDone == ri = Len(doc.trs)

\* convert_file is not running.
ConvertIdle ==
    /\ doc = Doc(FALSE, FALSE, FALSE, <<>>, <<>>)
    /\ pc = "idle"
    /\ col_map = EmptyDict
    /\ ri = 0
    /\ rows_out = <<>>
    /\ file_open = FALSE
    /\ file_rows = <<>>
    /\ err = ""

ConvertInit ==
    /\ \/ doc = Doc(FALSE, FALSE, FALSE, <<>>, <<>>)
       \/ doc = Doc(TRUE, FALSE, TRUE, <<>>, <<>>)
       \/ \E h \in SeqsUpTo(ThTexts, MaxHeaders) :
            \/ doc = Doc(TRUE, TRUE, FALSE, h, <<>>)
            \/ \E t \in SeqsUpTo(TdCounts(h), MaxRows) :
                 doc = Doc(TRUE, TRUE, TRUE, h, t)
    /\ pc = "start"
    /\ col_map = EmptyDict
    /\ ri = 0
    /\ rows_out = <<>>
    /\ file_open = FALSE
    /\ file_rows = <<>>
    /\ err = ""

\* parse_table is called on its own: the documents differ in their header row.
ParseInit ==
    /\ \/ doc = Doc(FALSE, FALSE, FALSE, <<>>, <<>>)
       \/ doc = Doc(TRUE, FALSE, TRUE, <<>>, <<>>)
       \/ \E h \in SeqsUpTo(ThTexts, MaxHeaders) : doc = Doc(TRUE, TRUE, TRUE, h, <<>>)
    /\ pc = "start"
    /\ col_map = EmptyDict
    /\ ri = 0
    /\ rows_out = <<>>
    /\ file_open = FALSE
    /\ file_rows = <<>>
    /\ err = ""

\* table, col_map = parse_table(soup)
ParseTable ==
    /\ pc = "start"
    /\ IF doc.hasTable /\ doc.hasThead
       THEN /\ col_map' = BuildColMap(Headers(doc), 0, EmptyDict)
            /\ pc' = "parsed"
            /\ err' = err
       ELSE /\ pc' = "failed"
            /\ err' = "AttributeError"
            /\ col_map' = col_map
    /\ UNCHANGED <<doc, ri, rows_out, file_open, file_rows>>
    /\ UNCHANGED notConvert

\* table.find("tbody").find_all("tr")
FindBody ==
    /\ pc = "parsed"
    /\ IF doc.hasTbody
       THEN pc' = "rows" /\ err' = err
       ELSE pc' = "failed" /\ err' = "AttributeError"
    /\ UNCHANGED <<doc, col_map, ri, rows_out, file_open, file_rows>>
    /\ UNCHANGED notConvert

\* One iteration of the for loop.
ConvertRow ==
    /\ pc = "rows"
    /\ ri < Len(doc.trs)
    /\ LET r == ri + 1 IN
        IF SkipRow(r)
        THEN /\ ri' = r
             /\ UNCHANGED <<pc, rows_out, err>>
        ELSE IF RowError(r) # ""
        THEN /\ pc' = "failed"
             /\ err' = RowError(r)
             /\ UNCHANGED <<ri, rows_out>>
        ELSE /\ rows_out' = Append(rows_out, RowRecord(r))
             /\ ri' = r
             /\ UNCHANGED <<pc, err>>
    /\ UNCHANGED <<doc, col_map, file_open, file_rows>>
    /\ UNCHANGED notConvert

\* with open(output_path, "w", ...) as f: the file is created or truncated.
OpenFile ==
    /\ pc = "rows"
    /\ LoopDone
    /\ file_open' = TRUE
    /\ file_rows' = <<>>
    /\ pc' = "opened"
    /\ UNCHANGED <<doc, col_map, ri, rows_out, err>>
    /\ UNCHANGED notConvert

\* writer.writeheader()
WriteHeader ==
    /\ pc = "opened"
    /\ file_rows' = Append(file_rows, FieldNames)
    /\ pc' = "header"
    /\ UNCHANGED <<doc, col_map, ri, rows_out, file_open, err>>
    /\ UNCHANGED notConvert

\* writer.writerows(rows_out)
WriteRows ==
    /\ pc = "header"
    /\ file_rows' = file_rows \o [i \in 1..Len(rows_out) |-> CsvRow(rows_out[i])]
    /\ pc' = "done"
    /\ UNCHANGED <<doc, col_map, ri, rows_out, file_open, err>>
    /\ UNCHANGED notConvert

ParseNext == ParseTable

ConvertNext ==
    \/ ParseTable
    \/ FindBody
    \/ ConvertRow
    \/ OpenFile
    \/ WriteHeader
    \/ WriteRows

----------------------------------------------------------------------------
(* tags_from_cell                                                          *)

\* re.split(r"[seps]+", s): the pieces between the maximal runs of separators.
RECURSIVE SplitRuns(_, _, _, _, _, _)
SplitRuns(s, seps, i, cur, acc, inRun) ==
    IF i > Len(s) THEN Append(acc, cur)
    ELSE IF s[i] \in seps
         THEN IF inRun THEN SplitRuns(s, seps, i + 1, cur, acc, TRUE)
              ELSE SplitRuns(s, seps, i + 1, <<>>, Append(acc, cur), TRUE)
         ELSE SplitRuns(s, seps, i + 1, Append(cur, s[i]), acc, FALSE)

ReSplit(s, seps) == SplitRuns(s, seps, 1, <<>>, <<>>, FALSE)

\* re.sub(r"\s+", "-", s)
RECURSIVE DashRuns(_, _, _, _)
DashRuns(s, i, acc, inRun) ==
    IF i > Len(s) THEN acc
    ELSE IF IsSpace(s[i])
         THEN IF inRun THEN DashRuns(s, i + 1, acc, TRUE)
              ELSE DashRuns(s, i + 1, Append(acc, "-"), TRUE)
         ELSE DashRuns(s, i + 1, Append(acc, s[i]), FALSE)

SubSpaceRuns(s) == DashRuns(s, 1, <<>>, FALSE)

\* str.strip(chars)
RECURSIVE StripChars(_, _)
StripChars(s, chars) ==
    IF s # <<>> /\ Head(s) \in chars THEN StripChars(Tail(s), chars)
    ELSE IF s # <<>> /\ s[Len(s)] \in chars
         THEN StripChars(SubSeq(s, 1, Len(s) - 1), chars)
         ELSE s

\* sep.join(parts)
RECURSIVE Join(_, _)
Join(parts, sep) ==
    IF parts = <<>> THEN <<>>
    ELSE IF Len(parts) = 1 THEN parts[1]
    ELSE parts[1] \o sep \o Join(Tail(parts), sep)

\* cell.get_text(" ", strip=True) for a cell holding one text node.
GetTextStrip(text) == Strip(text)

\* tokens = [t.strip() for t in re.split(r"[,;\n]+", raw) if t.strip()]
Tokens(raw) ==
    LET pieces == ReSplit(raw, {",", ";", "\n"})
        kept == SelectSeq(pieces, LAMBDA t : Strip(t) # <<>>)
    IN  [i \in 1..Len(kept) |-> Strip(kept[i])]

\* tok = re.sub(r"\s+", "-", tok.strip()).strip(",;")
DashTok(tok) == StripChars(SubSpaceRuns(Strip(tok)), {",", ";"})

\* A plausible slip: the membership test on seen left out.
KeepTokAlways(tok, seen) == tok # <<>>

\* if tok and tok not in seen
KeepTok(tok, seen) == tok # <<>> /\ tok \notin seen

\* The characters of the tag cells of the model.
TagChars == {"a", "A", " ", ",", ";", "\n"}

\* "foo, Bar Baz;; qux"
ExampleTagCell ==
    <<"f", "o", "o", ",", " ", "B", "a", "r", " ", "B", "a", "z", ";", ";", " ",
      "q", "u", "x">>

\* tags_from_cell is not running.
TagsIdle ==
    /\ t_cell = <<>>
    /\ t_pc = "idle"
    /\ t_tokens = <<>>
    /\ t_k = 0
    /\ t_clean = <<>>
    /\ t_seen = {}
    /\ t_result = <<>>

TagsInit ==
    /\ t_cell \in SeqsUpTo(TagChars, MaxTagLen) \cup {ExampleTagCell}
    /\ t_pc = "start"
    /\ t_tokens = <<>>
    /\ t_k = 0
    /\ t_clean = <<>>
    /\ t_seen = {}
    /\ t_result = <<>>

\* raw = ...; tokens = [...]; clean = []; seen = set()
TagsSplit ==
    /\ t_pc = "start"
    /\ t_tokens' = Tokens(GetTextStrip(t_cell))
    /\ t_pc' = "loop"
    /\ UNCHANGED <<t_cell, t_k, t_clean, t_seen, t_result>>
    /\ UNCHANGED notTags

\* One iteration of the for loop over tokens.
TagsStep ==
    /\ t_pc = "loop"
    /\ t_k < Len(t_tokens)
    /\ LET tok == DashTok(t_tokens[t_k + 1]) IN
        IF KeepTok(tok, t_seen)
        THEN /\ t_clean' = Append(t_clean, tok)
             /\ t_seen' = t_seen \cup {tok}
        ELSE UNCHANGED <<t_clean, t_seen>>
    /\ t_k' = t_k + 1
    /\ UNCHANGED <<t_cell, t_pc, t_tokens, t_result>>
    /\ UNCHANGED notTags

\* return " ".join(clean)
TagsJoin ==
    /\ t_pc = "loop"
    /\ t_k = Len(t_tokens)
    /\ t_result' = Join(t_clean, <<" ">>)
    /\ t_pc' = "done"
    /\ UNCHANGED <<t_cell, t_tokens, t_k, t_clean, t_seen>>
    /\ UNCHANGED notTags

TagsNext ==
    \/ TagsSplit
    \/ TagsStep
    \/ TagsJoin

----------------------------------------------------------------------------
(* merge_style and convert_color_classes_to_inline                         *)

\* A class token is a prefix and a key; the key is a sequence of atoms, each a
\* run of characters of [a-z_] or a single character outside that class.
LowerAtoms ==
    {"default", "gray", "brown", "orange", "yellow", "teal", "blue", "purple",
     "pink", "red", "zzz", "foo", "_background"}

\* CSS_COLOR_MAP
CssColorMap ==
    [k \in {"default", "gray", "brown", "orange", "yellow", "teal", "blue",
            "purple", "pink", "red"} |->
        CASE k = "default" -> "black"
          [] k = "gray" -> "gray"
          [] k = "brown" -> "saddlebrown"
          [] k = "orange" -> "orange"
          [] k = "yellow" -> "gold"
          [] k = "teal" -> "teal"
          [] k = "blue" -> "blue"
          [] k = "purple" -> "purple"
          [] k = "pink" -> "deeppink"
          [] k = "red" -> "red"]

\* re.match(r"(?:highlight|block-color)-([a-z_]+)$", cls)
ReMatch(cls) ==
    /\ cls.pre \in {"highlight-", "block-color-"}
    /\ cls.key # <<>>
    /\ \A i \in 1..Len(cls.key) : cls.key[i] \in LowerAtoms

\* key.endswith("_background")
EndsWithBackground(key) == key # <<>> /\ key[Len(key)] = "_background"

\* CSS_COLOR_MAP.get(key), "" for None
ColorOf(key) ==
    IF Len(key) = 1 /\ key[1] \in DOMAIN CssColorMap THEN CssColorMap[key[1]] ELSE ""

\* The rule merge_style is called with for cls, "" when it is not called.
NewRule(cls) ==
    IF ReMatch(cls) /\ ~EndsWithBackground(cls.key) /\ ColorOf(cls.key) # ""
    THEN <<"color:", ColorOf(cls.key)>>
    ELSE <<>>

\* A plausible slip: classes.remove(cls) placed inside "if col:".
RemovesClassIfColored(cls) == ReMatch(cls) /\ NewRule(cls) # <<>>

\* classes.remove(cls) is reached for cls.
RemovesClass(cls) == ReMatch(cls)

\* list.remove(x): the first occurrence is removed.
RECURSIVE ListRemove(_, _)
ListRemove(l, x) ==
    IF l = <<>> THEN l
    ELSE IF Head(l) = x THEN Tail(l)
    ELSE <<Head(l)>> \o ListRemove(Tail(l), x)

\* merge_style(el, new_rules): the new value of el["style"].
MergeStyle(hasStyle, style, new_rules) ==
    LET existing == RStripSemis(Strip(IF hasStyle THEN style ELSE <<>>))
    IN  IF existing # <<>> THEN existing \o <<";">> \o new_rules ELSE new_rules

\* The class tokens of the model.
ClassTokens ==
    { [pre |-> "highlight-", key |-> <<"red">>],
      [pre |-> "block-color-", key |-> <<"brown">>],
      [pre |-> "highlight-", key |-> <<"red", "_background">>],
      [pre |-> "block-color-", key |-> <<"zzz">>],
      [pre |-> "highlight-", key |-> <<"red", "2">>],
      [pre |-> "highlight-", key |-> <<>>],
      [pre |-> "", key |-> <<"foo">>] }

\* The style attributes of the model: absent, or a sequence of atoms.
Styles ==
    { [has |-> FALSE, val |-> <<>>],
      [has |-> TRUE, val |-> <<>>],
      [has |-> TRUE, val |-> <<";">>],
      [has |-> TRUE, val |-> <<"font-weight:bold">>],
      [has |-> TRUE, val |-> <<" ", "font-weight:bold", ";", " ">>] }

\* convert_color_classes_to_inline is not running.
ColorIdle ==
    /\ k_el0 = [hasClass |-> FALSE, classes |-> <<>>, hasStyle |-> FALSE, style |-> <<>>]
    /\ k_pc = "idle"
    /\ k_hasClass = FALSE
    /\ k_classes = <<>>
    /\ k_hasStyle = FALSE
    /\ k_style = <<>>
    /\ k_snapshot = <<>>
    /\ k_i = 0

ColorInit ==
    /\ \E st \in Styles :
        \/ k_el0 = [hasClass |-> FALSE, classes |-> <<>>,
                    hasStyle |-> st.has, style |-> st.val]
        \/ \E cl \in SeqsUpTo(ClassTokens, MaxClasses) :
            k_el0 = [hasClass |-> TRUE, classes |-> cl,
                     hasStyle |-> st.has, style |-> st.val]
    /\ k_pc = "start"
    /\ k_hasClass = k_el0.hasClass
    /\ k_classes = k_el0.classes
    /\ k_hasStyle = k_el0.hasStyle
    /\ k_style = k_el0.style
    /\ k_snapshot = <<>>
    /\ k_i = 0

\* classes = el.get("class", []); if not classes: return; list(classes)
ColorEnter ==
    /\ k_pc = "start"
    /\ IF k_classes = <<>>
       THEN k_pc' = "done" /\ k_snapshot' = k_snapshot
       ELSE k_pc' = "loop" /\ k_snapshot' = k_classes
    /\ UNCHANGED <<k_el0, k_hasClass, k_classes, k_hasStyle, k_style, k_i>>
    /\ UNCHANGED notColor

\* One iteration of the for loop over list(classes).
ColorStep ==
    /\ k_pc = "loop"
    /\ k_i < Len(k_snapshot)
    /\ LET cls == k_snapshot[k_i + 1] IN
        /\ IF NewRule(cls) # <<>>
           THEN /\ k_style' = MergeStyle(k_hasStyle, k_style, NewRule(cls))
                /\ k_hasStyle' = TRUE
           ELSE UNCHANGED <<k_hasStyle, k_style>>
        /\ k_classes' = IF RemovesClass(cls) THEN ListRemove(k_classes, cls) ELSE k_classes
    /\ k_i' = k_i + 1
    /\ UNCHANGED <<k_el0, k_pc, k_hasClass, k_snapshot>>
    /\ UNCHANGED notColor

\* if classes: el["class"] = classes  else: el.attrs.pop("class", None)
ColorFinish ==
    /\ k_pc = "loop"
    /\ k_i = Len(k_snapshot)
    /\ k_hasClass' = (k_classes # <<>>)
    /\ k_pc' = "done"
    /\ UNCHANGED <<k_el0, k_classes, k_hasStyle, k_style, k_snapshot, k_i>>
    /\ UNCHANGED notColor

ColorNext ==
    \/ ColorEnter
    \/ ColorStep
    \/ ColorFinish

----------------------------------------------------------------------------
(* sanitize_inline_html, rich mode                                         *)
(*                                                                         *)
(* The cell is node 0; the nodes below it are numbered in document order.  *)
(* A node is an element (a tag and a style attribute, a sequence of        *)
(* declarations) or a text node (tag "#text" and its characters).  The     *)
(* elements of the model carry no class and no href, so the calls of       *)
(* convert_color_classes_to_inline (modelled above) and the cleaning of    *)
(* <a> attributes leave them as they are.  A serialized string is a        *)
(* sequence of tokens: a character, a start tag with its style, an end tag *)
(* or a line break.                                                        *)

\* ALLOWED_TAGS
AllowedTags ==
    {"strong", "b", "em", "i", "u", "code", "pre", "span", "br", "ul", "ol",
     "li", "a", "div"}

\* The elements html.parser gives no content.
VoidTags == {"br"}

ElemNode(tag, has, style) == [tag |-> tag, has |-> has, style |-> style, text |-> <<>>]

TextNode(text) == [tag |-> "#text", has |-> FALSE, style |-> <<>>, text |-> text]

\* The backtick character, and the three of them that delimit a fenced region.
Backtick == "backtick"

Fence == <<Backtick, Backtick, Backtick>>

\* The nodes of the model.
NodeKinds ==
    { ElemNode("b", TRUE, <<"background-color:y", "color:red">>),
      ElemNode("h1", TRUE, <<"font-size:9px">>),
      ElemNode("mark", FALSE, <<>>),
      ElemNode("br", FALSE, <<>>),
      TextNode(<<"x">>),
      TextNode(Fence),
      TextNode(<<"\n">>),
      TextNode(<<"\n">> \o Fence) }

IsText(nd) == nd.tag = "#text"

\* The parent of node j when depth gives the nesting depth of each node.
ParentByDepth(depth, j) ==
    IF depth[j] = 1 THEN 0
    ELSE CHOOSE i \in 1..(j - 1) :
            /\ depth[i] = depth[j] - 1
            /\ \A m \in (i + 1)..(j - 1) : depth[m] >= depth[j]

\* The child lists of a tree given by the depths of its nodes.
KidsByDepth(depth) ==
    [p \in 0..Len(depth) |->
        SelectSeq([j \in 1..Len(depth) |-> j], LAMBDA j : ParentByDepth(depth, j) = p)]

\* nodes and depths describe a tree html.parser can build: only a non-void
\* element has children and no two text nodes are adjacent siblings.
WellFormed(nodes, depth) ==
    /\ Len(nodes) > 0 => depth[1] = 1
    /\ \A i \in 1..(Len(nodes) - 1) :
        /\ depth[i + 1] <= depth[i] + 1
        /\ depth[i + 1] = depth[i] + 1 => ~IsText(nodes[i]) /\ nodes[i].tag \notin VoidTags
    /\ \A p \in 0..Len(nodes) :
        LET ks == KidsByDepth(depth)[p]
        IN  \A i \in 1..(Len(ks) - 1) : ~(IsText(nodes[ks[i]]) /\ IsText(nodes[ks[i + 1]]))

\* The nodes below n in document order, n first.
RECURSIVE Preorder(_, _)
RECURSIVE PreorderAll(_, _)
Preorder(kids, n) == <<n>> \o PreorderAll(kids, kids[n])

PreorderAll(kids, ns) ==
    IF ns = <<>> THEN <<>>
    ELSE Preorder(kids, Head(ns)) \o PreorderAll(kids, Tail(ns))

\* cell.find_all(True): the elements below the cell, in document order.
FindAllTags(nodes, kids) ==
    SelectSeq(PreorderAll(kids, kids[0]), LAMBDA n : ~IsText(nodes[n]))

\* The node whose child list holds n.
ParentOf(kids, n) == CHOOSE p \in DOMAIN kids : \E i \in 1..Len(kids[p]) : kids[p][i] = n

IndexOf(l, x) == CHOOSE i \in 1..Len(l) : l[i] = x

\* A plausible slip: the element removed together with its children.
UnwrapDropChildren(kids, n) ==
    LET p == ParentOf(kids, n)
        i == IndexOf(kids[p], n)
    IN  [kids EXCEPT ![p] = SubSeq(kids[p], 1, i - 1) \o SubSeq(kids[p], i + 1, Len(kids[p])),
                     ![n] = <<>>]

\* tag.unwrap(): the children of n take its place in its parent.
Unwrap(kids, n) ==
    LET p == ParentOf(kids, n)
        i == IndexOf(kids[p], n)
    IN  [kids EXCEPT ![p] = SubSeq(kids[p], 1, i - 1) \o kids[n]
                                \o SubSeq(kids[p], i + 1, Len(kids[p])),
                     ![n] = <<>>]

\* s.strip().startswith("background-color")
IsBackground(decl) == decl \in {"background-color:y"}

\* ";".join of the declarations that are not blank and not a background-color.
StripBackground(style) ==
    SelectSeq(style, LAMBDA d : ~IsBackground(d) /\ d \notin {"", " "})

\* Tokens of a serialized string.
Ch(c) == [t |-> "ch", v |-> c, has |-> FALSE, style |-> <<>>]
Open(tag, has, style) == [t |-> "open", v |-> tag, has |-> has, style |-> style]
Close(tag) == [t |-> "close", v |-> tag, has |-> FALSE, style |-> <<>>]
Br(form) == [t |-> "br", v |-> form, has |-> FALSE, style |-> <<>>]

\* decode_contents(): a tree of html.parser serializes a void element as <br/>.
RECURSIVE Decode(_, _, _)
RECURSIVE DecodeAll(_, _, _)
Decode(nodes, kids, n) ==
    IF IsText(nodes[n]) THEN [i \in 1..Len(nodes[n].text) |-> Ch(nodes[n].text[i])]
    ELSE IF nodes[n].tag \in VoidTags THEN <<Br("<br/>")>>
    ELSE <<Open(nodes[n].tag, nodes[n].has, nodes[n].style)>>
            \o DecodeAll(nodes, kids, kids[n]) \o <<Close(nodes[n].tag)>>

DecodeAll(nodes, kids, ns) ==
    IF ns = <<>> THEN <<>>
    ELSE Decode(nodes, kids, Head(ns)) \o DecodeAll(nodes, kids, Tail(ns))

\* .replace("<br>", "<br/>").replace("<br />", "<br/>")
NormalizeBr(str) ==
    [i \in 1..Len(str) |->
        IF str[i].t = "br" /\ str[i].v \in {"<br>", "<br />"} THEN Br("<br/>") ELSE str[i]]

\* .replace("<br/>", "\n")
BrToNewline(str) ==
    [i \in 1..Len(str) |-> IF str[i] = Br("<br/>") THEN Ch("\n") ELSE str[i]]

\* .replace("\n", "<br/>")
NewlineToBr(str) ==
    [i \in 1..Len(str) |-> IF str[i] = Ch("\n") THEN Br("<br/>") ELSE str[i]]

\* The first position from position from on where three backticks start, 0 when none.
TripleAt(str, i) ==
    i + 2 <= Len(str) /\ str[i] = Ch(Backtick) /\ str[i + 1] = Ch(Backtick) /\ str[i + 2] = Ch(Backtick)

FindTriple(str, from) ==
    IF \E i \in from..Len(str) : TripleAt(str, i)
    THEN CHOOSE i \in from..Len(str) :
            TripleAt(str, i) /\ \A j \in from..(i - 1) : ~TripleAt(str, j)
    ELSE 0

\* The end tags that close the open elements of stack, innermost first.
RECURSIVE CloseAll(_)
CloseAll(stack) ==
    IF stack = <<>> THEN <<>>
    ELSE <<Close(stack[Len(stack)])>> \o CloseAll(SubSeq(stack, 1, Len(stack) - 1))

\* The position in stack of the innermost open element named tag, 0 when none.
LastOpen(stack, tag) ==
    IF \E i \in 1..Len(stack) : stack[i] = tag
    THEN CHOOSE i \in 1..Len(stack) :
            stack[i] = tag /\ \A j \in (i + 1)..Len(stack) : stack[j] # tag
    ELSE 0

\* BeautifulSoup(inner, "html.parser").decode_contents(): an end tag closes the
\* innermost open element of its name and those opened inside it, an end tag
\* with no open element is dropped, the elements left open are closed at the end.
RECURSIVE Reparse(_, _, _, _)
Reparse(str, i, stack, out) ==
    IF i > Len(str) THEN out \o CloseAll(stack)
    ELSE IF str[i].t = "open"
         THEN Reparse(str, i + 1, Append(stack, str[i].v), Append(out, str[i]))
    ELSE IF str[i].t = "close"
         THEN LET k == LastOpen(stack, str[i].v) IN
              IF k = 0 THEN Reparse(str, i + 1, stack, out)
              ELSE Reparse(str, i + 1, SubSeq(stack, 1, k - 1),
                           out \o CloseAll(SubSeq(stack, k, Len(stack))))
    ELSE Reparse(str, i + 1, stack, Append(out, str[i]))

\* The style of the <div> a fenced region is replaced by.
FenceStyle == <<"font-family:Menlo,Consolas,'Courier New',monospace", " white-space:pre">>

\* fence_replacer(m), inner = m.group(1)
FenceReplacer(inner) ==
    LET soup == Reparse(inner, 1, <<>>, <<>>)
        clean == [i \in 1..Len(soup) |->
                    IF soup[i].t = "open" /\ soup[i].has
                    THEN Open(soup[i].v, TRUE, StripBackground(soup[i].style))
                    ELSE soup[i]]
    IN  <<Open("div", TRUE, FenceStyle)>> \o clean \o <<Close("div")>>

\* re.sub(<fence>(.*?)<fence>, fence_replacer, tmp, flags=re.DOTALL), from pos on.
RECURSIVE ReSubFences(_, _)
ReSubFences(str, pos) ==
    LET i == FindTriple(str, pos)
        j == IF i = 0 THEN 0 ELSE FindTriple(str, i + 3)
    IN  IF j = 0 THEN SubSeq(str, pos, Len(str))
        ELSE SubSeq(str, pos, i - 1) \o FenceReplacer(SubSeq(str, i + 3, j - 1))
                \o ReSubFences(str, j + 3)

\* sanitize_inline_html is not running.
SanitizeIdle ==
    /\ s_cell0 = [node |-> <<>>, kids |-> [p \in {0} |-> <<>>]]
    /\ s_pc = "idle"
    /\ s_node = <<>>
    /\ s_kids = [p \in {0} |-> <<>>]
    /\ s_work = <<>>
    /\ s_wi = 0
    /\ s_html = <<>>
    /\ s_tmp = <<>>
    /\ s_out = <<>>

SanitizeInit ==
    /\ \E n \in 0..MaxNodes :
        \E nodes \in [1..n -> NodeKinds] :
            \E depth \in [1..n -> 1..n] :
                /\ WellFormed(nodes, depth)
                /\ s_cell0 = [node |-> nodes, kids |-> KidsByDepth(depth)]
    /\ s_pc = "start"
    /\ s_node = s_cell0.node
    /\ s_kids = s_cell0.kids
    /\ s_work = <<>>
    /\ s_wi = 0
    /\ s_html = <<>>
    /\ s_tmp = <<>>
    /\ s_out = <<>>

\* Lines 57-69: every <mark> becomes a <span>; the color classes of the marks
\* and spans and the attributes of the links are rewritten.
SanRename ==
    /\ s_pc = "start"
    /\ s_node' = [i \in 1..Len(s_node) |->
                    IF s_node[i].tag = "mark" THEN [s_node[i] EXCEPT !.tag = "span"]
                    ELSE s_node[i]]
    /\ s_pc' = "find_all"
    /\ UNCHANGED <<s_cell0, s_kids, s_work, s_wi, s_html, s_tmp, s_out>>
    /\ UNCHANGED notSanitize

\* list(cell.find_all(True))
SanFindAll ==
    /\ s_pc = "find_all"
    /\ s_work' = FindAllTags(s_node, s_kids)
    /\ s_pc' = "unwrap"
    /\ UNCHANGED <<s_cell0, s_node, s_kids, s_wi, s_html, s_tmp, s_out>>
    /\ UNCHANGED notSanitize

\* One iteration of the loop that unwraps the disallowed tags.
SanUnwrapStep ==
    /\ s_pc = "unwrap"
    /\ s_wi < Len(s_work)
    /\ LET n == s_work[s_wi + 1] IN
        s_kids' = IF s_node[n].tag \notin AllowedTags THEN Unwrap(s_kids, n) ELSE s_kids
    /\ s_wi' = s_wi + 1
    /\ UNCHANGED <<s_cell0, s_pc, s_node, s_work, s_html, s_tmp, s_out>>
    /\ UNCHANGED notSanitize

\* Lines 76-83: background-color is stripped from every style below the cell.
SanStripBackground ==
    /\ s_pc = "unwrap"
    /\ s_wi = Len(s_work)
    /\ LET live == Range(FindAllTags(s_node, s_kids)) IN
        s_node' = [i \in 1..Len(s_node) |->
                    IF i \in live /\ s_node[i].has
                    THEN [s_node[i] EXCEPT !.style = StripBackground(s_node[i].style)]
                    ELSE s_node[i]]
    /\ s_pc' = "serialize"
    /\ UNCHANGED <<s_cell0, s_kids, s_work, s_wi, s_html, s_tmp, s_out>>
    /\ UNCHANGED notSanitize

\* html_str = cell.decode_contents() with <br> normalized
SanSerialize ==
    /\ s_pc = "serialize"
    /\ s_html' = NormalizeBr(DecodeAll(s_node, s_kids, s_kids[0]))
    /\ s_pc' = "fence"
    /\ UNCHANGED <<s_cell0, s_node, s_kids, s_work, s_wi, s_tmp, s_out>>
    /\ UNCHANGED notSanitize

\* tmp = html_str.replace("<br/>", "\n"); tmp = re.sub(...)
SanFence ==
    /\ s_pc = "fence"
    /\ s_tmp' = ReSubFences(BrToNewline(s_html), 1)
    /\ s_pc' = "newline"
    /\ UNCHANGED <<s_cell0, s_node, s_kids, s_work, s_wi, s_html, s_out>>
    /\ UNCHANGED notSanitize

\* tmp = tmp.replace("\n", "<br/>"); return tmp
SanReturn ==
    /\ s_pc = "newline"
    /\ s_out' = NewlineToBr(s_tmp)
    /\ s_pc' = "done"
    /\ UNCHANGED <<s_cell0, s_node, s_kids, s_work, s_wi, s_html, s_tmp>>
    /\ UNCHANGED notSanitize

SanitizeNext ==
    \/ SanRename
    \/ SanFindAll
    \/ SanUnwrapStep
    \/ SanStripBackground
    \/ SanSerialize
    \/ SanFence
    \/ SanReturn

----------------------------------------------------------------------------
(* The specifications: one per function, the other functions at rest.      *)

InitConvert == ConvertInit /\ TagsIdle /\ ColorIdle /\ SanitizeIdle

InitParse == ParseInit /\ TagsIdle /\ ColorIdle /\ SanitizeIdle

InitTags == TagsInit /\ ConvertIdle /\ ColorIdle /\ SanitizeIdle

InitColor == ColorInit /\ ConvertIdle /\ TagsIdle /\ SanitizeIdle

InitSanitize == SanitizeInit /\ ConvertIdle /\ TagsIdle /\ ColorIdle

SpecConvert == InitConvert /\ [][ConvertNext]_vars

SpecParse == InitParse /\ [][ParseNext]_vars

SpecTags == InitTags /\ [][TagsNext]_vars

SpecColor == InitColor /\ [][ColorNext]_vars

SpecSanitize == InitSanitize /\ [][SanitizeNext]_vars

----------------------------------------------------------------------------
(* Properties of parse_table and convert_file, checked under SpecConvert  *)
(* (C9 under SpecParse).                                                   *)

Fields == {"id", "front", "back", "tags"}

\* parse_table has returned.
Parsed == pc \notin {"start"} /\ doc.hasTable /\ doc.hasThead

\* The rule of section 4.4 for a logical field, on a lowercased trimmed header.
Rule(f, name) ==
    CASE f = "id" -> \E i \in 1..Len(name) : name[i] = "notion-id"
      [] f = "front" -> name = <<"front">>
      [] f = "back" -> name = <<"back">>
      [] f = "tags" -> \E i \in 1..Len(name) : name[i] = "tags"

RulePos(f) == CASE f = "id" -> 1 [] f = "front" -> 2 [] f = "back" -> 3 [] f = "tags" -> 4

\* The first rule, in the fixed order, that the header matches is that of f.
FirstMatch(f, name) ==
    /\ Rule(f, name)
    /\ \A g \in Fields : RulePos(g) < RulePos(f) => ~Rule(g, name)

\* The 0-based indices of the header cells assigned to field f.
AssignedTo(f) ==
    LET H == Headers(doc) IN {i \in 0..(Len(H) - 1) : FirstMatch(f, H[i + 1])}

\* C9: each header cell is assigned to at most one logical field, the first of
\* the rules notion-id, front, back, tags that matches it; a field that several
\* header cells are assigned to maps to the last of them; distinct fields map
\* to distinct header indices.
C9_ColMapFirstRuleLastHeader ==
    Parsed =>
        LET A == [f \in Fields |-> AssignedTo(f)] IN
        /\ DOMAIN col_map = {f \in Fields : A[f] # {}}
        /\ \A f \in DOMAIN col_map :
            /\ col_map[f] \in A[f]
            /\ \A i \in A[f] : i <= col_map[f]
        /\ \A f, g \in DOMAIN col_map : f # g => col_map[f] # col_map[g]
        /\ \A i \in 0..(Len(doc.ths) - 1) :
            Cardinality({f \in Fields : i \in A[f]}) <= 1

\* A header row where a cell matches two rules and two cells are assigned the
\* same field has been parsed.
C9_Witness ==
    /\ Parsed
    /\ \E i \in 1..Len(doc.ths) :
        Rule("id", Headers(doc)[i]) /\ Rule("tags", Headers(doc)[i])
    /\ \E f \in Fields : Cardinality(AssignedTo(f)) >= 2
    /\ Cardinality(DOMAIN col_map) >= 2

\* Some header equals "front" (resp. "back") once trimmed and lowercased.
HasHeader(word) == \E i \in 1..Len(doc.ths) : Headers(doc)[i] = <<word>>

HasHeaderContaining(word) ==
    \E i \in 1..Len(doc.ths) : Contains(Headers(doc)[i], word)

\* The body rows that hold at least one td, in document order.
NonEmptyRows == SelectSeq([r \in 1..Len(doc.trs) |-> r], LAMBDA r : doc.trs[r] > 0)

\* C1 as stated: with a header section and a body, but no "front" or no "back"
\* header, the run fails and the output file is never opened or written.
C1_MissingFrontBackFails ==
    (doc.hasTable /\ doc.hasThead /\ doc.hasTbody
        /\ (~HasHeader("front") \/ ~HasHeader("back")))
    => /\ ~file_open
       /\ file_rows = <<>>
       /\ pc # "done"

\* C2: the output file is opened only after the table has been located, the
\* column map built and every body row converted; a failed run has not touched
\* the file; a completed run has written the header and all converted rows.
C2_OutputOnlyAfterAllRows ==
    /\ file_open =>
        /\ Parsed /\ doc.hasTbody
        /\ ri = Len(doc.trs)
        /\ Len(rows_out) = Len(NonEmptyRows)
        /\ err = ""
        /\ pc \in {"opened", "header", "done"}
    /\ ~file_open => file_rows = <<>>
    /\ pc = "failed" => ~file_open /\ err # ""
    /\ pc = "done" =>
        /\ file_open
        /\ file_rows = <<FieldNames>> \o [i \in 1..Len(rows_out) |-> CsvRow(rows_out[i])]

\* A run has failed on a later row after converting an earlier one.
C2_Witness ==
    /\ pc = "failed"
    /\ ri >= 1
    /\ Len(rows_out) >= 1
    /\ ~file_open

\* Every non-empty body row holds a td for every header cell.
AllRowsFull == \A r \in 1..Len(doc.trs) : doc.trs[r] \in {0, Len(doc.ths)}

\* C3 as stated: with front and back resolved and no id header and/or no tags
\* header, the run does not fail and every non-empty row is emitted with the
\* missing field empty.  (Stated for documents with a body whose rows are full.)
C3_IdAndTagsOptional ==
    (Parsed /\ doc.hasTbody /\ AllRowsFull
        /\ "front" \in DOMAIN col_map /\ "back" \in DOMAIN col_map
        /\ (~HasHeaderContaining("notion-id") \/ ~HasHeaderContaining("tags")))
    => /\ pc # "failed"
       /\ pc = "done" =>
            /\ Len(file_rows) = 1 + Len(NonEmptyRows)
            /\ \A k \in 1..Len(NonEmptyRows) :
                /\ ~HasHeaderContaining("notion-id") => file_rows[k + 1][1] = EmptyString
                /\ ~HasHeaderContaining("tags") => file_rows[k + 1][4] = EmptyString

\* C4: a completed run has written the fixed header row followed by exactly one
\* data row per body row that holds a td, in document order.
C4_OneRowPerNonEmptyRowInOrder ==
    pc = "done" =>
        /\ Len(file_rows) = 1 + Len(NonEmptyRows)
        /\ file_rows[1] = <<"Notion-ID", "Front", "Back", "Tags">>
        /\ \A k \in 1..Len(NonEmptyRows) :
            LET r == NonEmptyRows[k] IN
            /\ file_rows[k + 1][1] = <<r, col_map["id"], "get_text">>
            /\ file_rows[k + 1][2] = <<r, col_map["front"], "strip_all">>
            /\ file_rows[k + 1][3] = <<r, col_map["back"], "rich">>
            /\ file_rows[k + 1][4] \in {<<>>} \cup {<<r, i, "tags">> : i \in 0..Len(doc.ths)}

\* A run has completed on a body with an empty row between two emitted rows.
C4_Witness ==
    /\ pc = "done"
    /\ Len(doc.trs) = 3
    /\ doc.trs[1] > 0 /\ doc.trs[2] = 0 /\ doc.trs[3] > 0
    /\ Len(file_rows) = 3

----------------------------------------------------------------------------
(* Properties of tags_from_cell, checked under SpecTags.                   *)

\* The tokens of the cell, trimmed and dashed, before deduplication.
DashedTokens ==
    LET toks == Tokens(GetTextStrip(t_cell))
    IN  [i \in 1..Len(toks) |-> DashTok(toks[i])]

\* The parts of the returned string between its spaces.
ResultParts == IF t_result = <<>> THEN <<>> ELSE ReSplit(t_result, {" "})

\* The position of the first occurrence of x in s.
FirstIndex(s, x) == CHOOSE i \in 1..Len(s) : s[i] = x /\ \A j \in 1..(i - 1) : s[j] # x

\* "foo Bar-Baz qux"
ExampleTags ==
    <<"f", "o", "o", " ", "B", "a", "r", "-", "B", "a", "z", " ", "q", "u", "x">>

\* C5: the returned string holds the trimmed, dashed tokens of the cell, each
\* once, in first-seen order, joined by exactly one space; no token contains
\* whitespace or a separator; an empty cell yields the empty string; the cell
\* "foo, Bar Baz;; qux" yields "foo Bar-Baz qux".
C5_TagsDedupOrderedJoined ==
    t_pc = "done" =>
        /\ Strip(t_cell) = <<>> => t_result = <<>>
        /\ \A i \in 1..Len(t_result) : t_result[i] \notin {",", ";", "\n", "\t"}
        /\ t_result # <<>> => t_result[1] # " " /\ t_result[Len(t_result)] # " "
        /\ \A i \in 1..(Len(t_result) - 1) : ~(t_result[i] = " " /\ t_result[i + 1] = " ")
        /\ \A i, j \in 1..Len(ResultParts) : i # j => ResultParts[i] # ResultParts[j]
        /\ Range(ResultParts) = Range(DashedTokens)
        /\ \A i, j \in 1..Len(ResultParts) :
            i < j => FirstIndex(DashedTokens, ResultParts[i])
                        < FirstIndex(DashedTokens, ResultParts[j])
        /\ t_cell = ExampleTagCell => t_result = ExampleTags

\* A cell with a repeated token has been converted to two or more tags.
C5_Witness ==
    /\ t_pc = "done"
    /\ Len(ResultParts) >= 2
    /\ Len(DashedTokens) > Len(ResultParts)

----------------------------------------------------------------------------
(* Properties of convert_color_classes_to_inline, checked under SpecColor. *)

\* The token has the form highlight-<key> or block-color-<key>, the key a
\* non-empty run of lowercase letters and underscores.
OfColorForm(cls) ==
    /\ cls.pre = "highlight-" \/ cls.pre = "block-color-"
    /\ Len(cls.key) >= 1
    /\ \A i \in 1..Len(cls.key) : cls.key[i] \in LowerAtoms

\* The token is matched, its key does not end with _background and is a key of
\* the color map.
GivesColor(cls) ==
    /\ OfColorForm(cls)
    /\ cls.key[Len(cls.key)] # "_background"
    /\ Len(cls.key) = 1 /\ cls.key[1] \in DOMAIN CssColorMap

\* The declarations expected in the style, in the order of their tokens.
ExpectedDecls ==
    LET giving == SelectSeq(k_el0.classes, GivesColor)
    IN  [i \in 1..Len(giving) |-> <<"color:", CssColorMap[giving[i].key[1]]>>]

\* The style the element came with, without surrounding blanks and trailing ";".
ExistingStyle == RStripSemis(Strip(k_el0.style))

\* What the claim says of the class list and of the style, apart from the
\* removal of an emptied class attribute.
C6_ClassesAndStyle ==
    /\ k_classes = SelectSeq(k_el0.classes, LAMBDA c : ~OfColorForm(c))
    /\ k_hasClass => k_el0.hasClass
    /\ IF ExpectedDecls = <<>>
       THEN k_hasStyle = k_el0.hasStyle /\ k_style = k_el0.style
       ELSE /\ k_hasStyle
            /\ k_style =
                IF ExistingStyle = <<>>
                THEN Join(ExpectedDecls, <<";">>)
                ELSE ExistingStyle \o <<";">> \o Join(ExpectedDecls, <<";">>)

\* C6 as stated: every token of the form highlight-<key> or block-color-<key> is
\* removed, the other tokens keep their order, the class attribute is removed
\* when no token remains, and one color declaration is appended per matched
\* token with a text-color key of the color map.
C6_AsStated ==
    k_pc = "done" =>
        /\ C6_ClassesAndStyle
        /\ k_classes = <<>> => ~k_hasClass

\* C6 amended: the class attribute is removed when the element came with at
\* least one class token and none remains; an element that came with an empty
\* class list keeps its class attribute as it was.
C6_Amended ==
    k_pc = "done" =>
        /\ C6_ClassesAndStyle
        /\ (k_el0.classes # <<>> /\ k_classes = <<>>) => ~k_hasClass
        /\ k_el0.classes = <<>> => k_hasClass = k_el0.hasClass

\* An element with a style, a color class, a matched class that gives no
\* color and a class that stays has been normalized.
C6_Witness ==
    /\ k_pc = "done"
    /\ Len(ExpectedDecls) >= 1
    /\ \E i \in 1..Len(k_el0.classes) :
        OfColorForm(k_el0.classes[i]) /\ ~GivesColor(k_el0.classes[i])
    /\ k_classes # <<>>
    /\ k_el0.hasStyle /\ ExistingStyle # <<>>

----------------------------------------------------------------------------
(* Properties of sanitize_inline_html, checked under SpecSanitize.         *)

\* The loop that unwraps the disallowed tags has ended.
Unwrapped ==
    \/ s_pc = "unwrap" /\ s_wi = Len(s_work)
    \/ s_pc \in {"serialize", "fence", "newline", "done"}

\* The nodes below the cell, in document order, as passed in and now.
Order0 == PreorderAll(s_cell0.kids, s_cell0.kids[0])
OrderNow == PreorderAll(s_kids, s_kids[0])

\* The node is a text node or an element that is not to be unwrapped: its tag is
\* in the allowed set, or it is a highlight marker, which is renamed to span.
Kept(n) ==
    \/ s_cell0.node[n].tag = "#text"
    \/ s_cell0.node[n].tag \in
        {"strong", "b", "em", "i", "u", "code", "pre", "span", "br", "ul", "ol",
         "li", "a", "div"}
    \/ s_cell0.node[n].tag = "mark"

\* The nearest ancestor of n in the cell as passed in that is kept (0: the cell).
RECURSIVE KeptAncestor(_)
KeptAncestor(n) ==
    LET p == ParentOf(s_cell0.kids, n)
    IN  IF p = 0 \/ Kept(p) THEN p ELSE KeptAncestor(p)

\* The style attributes of the elements that are unwrapped.
UnwrappedStyles == {s_cell0.node[n].style : n \in {m \in Range(Order0) : ~Kept(m)}}

\* No tag of str is outside the allowed set or carries an unwrapped element's style.
OnlyAllowedTags(str) ==
    \A i \in 1..Len(str) :
        str[i].t \in {"open", "close"} =>
            /\ str[i].v \in
                {"strong", "b", "em", "i", "u", "code", "pre", "span", "br", "ul",
                 "ol", "li", "a", "div"}
            /\ str[i].has => str[i].style \notin UnwrappedStyles

\* C7: once the disallowed tags are unwrapped, nested ones included, no element
\* outside the allowed set remains below the cell; the text nodes and the other
\* elements are all there, in their original document order, each below its
\* nearest surviving ancestor; the serialized and the returned string hold no
\* tag outside the allowed set and no attribute of an unwrapped element.
C7_DisallowedUnwrapped ==
    /\ Unwrapped =>
        /\ \A n \in Range(OrderNow) :
            s_node[n].tag = "#text" \/ s_node[n].tag \in AllowedTags
        /\ OrderNow = SelectSeq(Order0, Kept)
        /\ \A n \in Range(OrderNow) :
            /\ ParentOf(s_kids, n) = KeptAncestor(n)
            /\ s_node[n].text = s_cell0.node[n].text
    /\ s_pc \in {"fence", "newline", "done"} => OnlyAllowedTags(s_html)
    /\ s_pc = "done" => OnlyAllowedTags(s_out)

\* A cell with a text node inside a disallowed element inside another
\* disallowed element has been sanitized.
C7_Witness ==
    /\ s_pc = "done"
    /\ \E i, j, t \in 1..Len(s_cell0.node) :
        /\ s_cell0.node[i].tag = "h1" /\ s_cell0.node[j].tag = "h1"
        /\ s_cell0.node[t].tag = "#text"
        /\ ParentOf(s_cell0.kids, j) = i
        /\ ParentOf(s_cell0.kids, t) = j
        /\ ParentOf(s_kids, t) = 0

\* The number of fence delimiters of str, counted left to right from pos.
RECURSIVE CountDelims(_, _)
CountDelims(str, pos) ==
    IF FindTriple(str, pos) = 0 THEN 0
    ELSE 1 + CountDelims(str, FindTriple(str, pos) + 3)

\* str with its k-th, (k+1)-th ... delimiters from pos replaced in turn by the
\* start tag (odd) and the end tag (even) of the monospace block.
RECURSIVE FencesReplaced(_, _, _)
FencesReplaced(str, pos, k) ==
    LET i == FindTriple(str, pos)
    IN  IF i = 0 THEN SubSeq(str, pos, Len(str))
        ELSE SubSeq(str, pos, i - 1)
                \o <<IF k % 2 = 1
                     THEN [t |-> "open", v |-> "div", has |-> TRUE, style |-> FenceStyle]
                     ELSE [t |-> "close", v |-> "div", has |-> FALSE, style |-> <<>>]>>
                \o FencesReplaced(str, i + 3, k + 1)

\* The cell holds text and line breaks only.
TextAndBrOnly == \A i \in 1..Len(s_html) : s_html[i].t \in {"ch", "br"}

\* C8 as stated: with an even number of delimiters, each pair and the content
\* between them becomes one monospace block around that content, the content
\* outside the fenced regions stays in place, and no delimiter is left.
\* (Stated for cells of text and line breaks.)
C8_FencesPairedContentKept ==
    (s_pc = "done" /\ TextAndBrOnly
        /\ CountDelims(s_html, 1) > 0 /\ CountDelims(s_html, 1) % 2 = 0)
    => /\ s_out = FencesReplaced(s_html, 1, 1)
       /\ CountDelims(s_out, 1) = 0

\* The number of line-break tokens of str.
CountBr(str) == Cardinality({i \in 1..Len(str) : str[i].t = "br"})

\* C10 as stated: for a cell with no delimiter the returned string equals the
\* canonicalised serialization of step 6 and holds as many line breaks as the
\* sanitized cell has line-break elements.
C10_BrNewlineRoundTrip ==
    (s_pc = "done" /\ CountDelims(s_html, 1) = 0)
    => /\ s_out = s_html
       /\ CountBr(s_out) = Cardinality({n \in Range(OrderNow) : s_node[n].tag = "br"})

====
